---- MODULE Spec2Model ----
(***************************************************************************)
(* Model of the service-level cache core of nestjs-redis-cacheable:        *)
(* cacheable.helper.ts (key composition, fetchCachedValue, cacheableHandle *)
(* with the watchdog timer) and the @Cacheable / @CacheEvict decorators.   *)
(*                                                                         *)
(* The event loop.  JavaScript runs the code of an async function without  *)
(* interruption up to its next await.  A continuation whose awaited        *)
(* promise has settled is a microtask; microtasks run in the order in      *)
(* which they were queued (mq), and all of them run before the next task.  *)
(* phase = "task": a task (an I/O callback, a timer, a request handler) is *)
(* running or the loop is idle; phase = "jobs": the microtask queue is     *)
(* being drained.  The callers, the original methods and the store are the *)
(* environment: its code runs in tasks and in microtasks of its own        *)
(* (EnvTask in mq); replies of the store and timers arrive in tasks.       *)
(***************************************************************************)
EXTENDS Integers, Sequences, FiniteSets, TLC

(* ------------------------------ bounds --------------------------------- *)
NumCallers == 3
NumEvictCalls == 2
NumIds == 1
MaxEnvTasks == 1
MaxArg == 2

Callers == 1..NumCallers
(* one call more, for the specification of the late-waiter race *)
RaceCallers == 1..(NumCallers + 1)
EvictCalls == 1..NumEvictCalls
Ids == 1..NumIds
(* argument values of the calls whose keys are composed *)
ArgValues == 1..MaxArg

(* ------------------------- JavaScript values --------------------------- *)
(* A string is a sequence of tokens; concatenation is \o.                  *)
Str(s) == [tag |-> "str", v |-> s]
Arr(a) == [tag |-> "arr", v |-> a]
Fn(name) == [tag |-> "fn", v |-> name]
Undefined == [tag |-> "undefined", v |-> <<>>]
Throw(e) == [tag |-> "throw", v |-> e]

TypeError == <<"TypeError">>
SyntaxError == <<"SyntaxError">>

(* Decimal digits, to print a small number into a string and to parse it. *)
DigitStr == <<"0", "1", "2", "3", "4", "5", "6", "7", "8", "9">>
NumToStr(n) == DigitStr[n + 1]
StrToNum(d) == (CHOOSE i \in 1..Len(DigitStr) : DigitStr[i] = d) - 1
IsDigit(d) == \E i \in 1..Len(DigitStr) : DigitStr[i] = d

(* The key builders of the decorated services: README.md's                 *)
(* (id) => `username-${id}` and a CacheEvictKeyBuilder returning string[]. *)
ApplyFn(name, args) ==
  CASE name = "usernameKey" -> Str(<<"username-", NumToStr(args[1])>>)
    [] name = "userKeys" ->
         Arr(<<Str(<<"username-", NumToStr(args[1])>>), Str(<<"all">>)>>)
    [] name = "tenantNs" -> Str(<<"tenant-", NumToStr(args[1])>>)
    [] OTHER -> Undefined

(* `${x}`: a string is itself, a function is its source text. *)
ToStringJS(x) ==
  CASE x.tag = "str" -> x.v
    [] x.tag = "fn" -> <<"source-of-", x.v>>
    [] OTHER -> <<x.tag>>

(* const extract = (b, a) =>
     Array.isArray(b instanceof Function ? b(...a) : b) ? (b as string[]) : [b] *)
extract(b, a) ==
  LET r == IF b.tag = "fn" THEN ApplyFn(b.v, a) ELSE b
  IN IF r.tag = "arr" THEN b ELSE Arr(<<b>>)

(* createHash('md5').update(stringify(args)).digest('hex'), kept symbolic *)
stringify(args) == <<"[">> \o [i \in 1..Len(args) |-> NumToStr(args[i])] \o <<"]">>
Md5(args) == <<"md5(">> \o stringify(args) \o <<")">>

(* opts.key / opts.namespace absent = Undefined.  The result is Arr of the
   composed keys, or Throw(TypeError) when keys.map is not a function. *)
generateComposedKey(opts) ==
  LET keys == IF opts.key.tag # "undefined"
              THEN extract(opts.key, opts.args)
              ELSE Arr(<<Str(<<opts.methodName, "@">> \o Md5(opts.args))>>)
      ns == IF opts.namespace.tag # "undefined"
            THEN extract(opts.namespace, opts.args)
            ELSE Undefined
  IN IF keys.tag # "arr" THEN Throw(TypeError)
     ELSE Arr([i \in 1..Len(keys.v) |->
                IF ns.tag # "undefined"
                THEN Str(ToStringJS(IF ns.tag = "arr" THEN ns.v[1] ELSE Undefined)
                         \o <<":">> \o ToStringJS(keys.v[i]))
                ELSE keys.v[i]])


(* --------------------------- serializer -------------------------------- *)
Num(n) == [tag |-> "num", v |-> n]
JSNull == [tag |-> "null", v |-> <<>>]

(* jsonSerializer: serialize = JSON.stringify, deserialize = JSON.parse *)
serialize(data) ==
  CASE data.tag = "num" -> Str(<<NumToStr(data.v)>>)
    [] data.tag = "null" -> Str(<<"null">>)
    [] OTHER -> Undefined

deserialize(raw) ==
  IF raw.tag = "str" /\ Len(raw.v) = 1
  THEN IF IsDigit(raw.v[1]) THEN Num(StrToNum(raw.v[1]))
       ELSE IF raw.v[1] = "null" THEN JSNull
       ELSE Throw(SyntaxError)
  ELSE Throw(SyntaxError)

(* ------------------------ decorated methods ---------------------------- *)
pendingTimeout == 30000
globalTTL == 0

(* @Cacheable options of the service methods (README.md's getUserName and a
   method cached under a literal key). *)
CacheableMethods == {"getUserName"}
CacheableOpts(m) ==
  IF m = "getUserName"
  THEN [key |-> Fn("usernameKey"), namespace |-> Str(<<"user">>), ttl |-> Num(5000)]
  ELSE [key |-> Str(<<"all">>), namespace |-> Str(<<"user">>), ttl |-> Undefined]

(* @CacheEvict options: README.md's deleteUser, and a method with two specs
   of which the second has a key builder returning string[]. *)
EvictMethods == {"deleteUser", "purgeUsers"}
EvictOpts(m) ==
  IF m = "deleteUser"
  THEN <<[key |-> Fn("usernameKey"), namespace |-> Str(<<"user">>)],
         [key |-> Str(<<"all">>), namespace |-> Str(<<"user">>)]>>
  ELSE <<[key |-> Str(<<"all">>), namespace |-> Str(<<"user">>)],
         [key |-> Fn("userKeys"), namespace |-> Str(<<"user">>)]>>

ComposeFor(o, m, args) ==
  generateComposedKey([key |-> o.key, namespace |-> o.namespace,
                       methodName |-> m, args |-> args])

CacheableKeys ==
  {ComposeFor(CacheableOpts(m), m, <<i>>).v[1] : m \in CacheableMethods, i \in Ids}

(* the keys spec number n of method m composes for args, <<>> if it throws *)
EvictKeysOf(m, n, args) ==
  LET composed == ComposeFor(EvictOpts(m)[n], m, args)
  IN IF composed.tag = "arr" THEN composed.v ELSE <<>>

EvictKeys ==
  UNION {{EvictKeysOf(m, n, <<i>>)[x] : x \in 1..Len(EvictKeysOf(m, n, <<i>>))} :
           m \in EvictMethods, n \in 1..2, i \in Ids}

Keys == CacheableKeys \cup EvictKeys

(* ------------------------------ state ---------------------------------- *)
VARIABLES
  cacheManager,          \* TRUE once setCacheManager has run
  store,                 \* the Redis keyspace: key -> [data, ex]
  pendingCacheMap,       \* key -> index into reads, 0 = no entry
  reads,                 \* the promises of client.get: [key, state, raw, waiters]
  pendingMethodCallMap,  \* key -> index into entries, 0 = no entry
  entries,               \* PendingEntry objects: [key, promise, timer, waiters]
  call,                  \* the calls of @Cacheable methods
  evict,                 \* the calls of @CacheEvict methods
  mq,                    \* the microtask queue: continuations ready to run
  phase,                 \* "task" or "jobs"
  pure                   \* one application of a pure helper: inputs and result

vars == <<cacheManager, store, pendingCacheMap, reads, pendingMethodCallMap,
          entries, call, evict, mq, phase, pure>>

Absent == [data |-> JSNull, ex |-> 0]
PrePopulated == [data |-> serialize(Num(9)), ex |-> 0]
Malformed == [data |-> Str(<<"{">>), ex |-> 0]

StoreReadError == <<"StoreReadError">>
StoreWriteError == <<"StoreWriteError">>
StoreDelError == <<"StoreDelError">>
ProducerError(e) == <<"ProducerError", NumToStr(e)>>
OriginalError == <<"OriginalError">>

IdleCall ==
  [pc |-> "idle", method |-> "", args |-> <<>>, key |-> Undefined, rp |-> 0,
   fetched |-> Undefined, entry |-> 0, owner |-> FALSE, set |-> "none",
   value |-> Undefined, direct |-> FALSE, invoked |-> Undefined,
   orig |-> Undefined, result |-> Undefined, after |-> {}]

IdleEvict ==
  [pc |-> "idle", method |-> "", args |-> <<>>, orig |-> Undefined,
   dels |-> <<>>, result |-> Undefined, before |-> 0]

(* No helper applied. *)
PureIdle ==
  [op |-> "none", key |-> Undefined, namespace |-> Undefined, methodName |-> "",
   args |-> <<>>, args2 |-> <<>>, ttl |-> Undefined, gttl |-> 0,
   out |-> Undefined, out2 |-> Undefined, done |-> FALSE]

(* key / namespace options of a decorator: absent, a literal, a builder *)
KeySpecs ==
  {Undefined, Str(<<"42">>), Str(<<"all">>), Arr(<<Str(<<"a">>), Str(<<"b">>)>>),
   Fn("usernameKey"), Fn("userKeys")}
NamespaceSpecs == {Undefined, Str(<<"user">>), Fn("tenantNs")}
MethodNames == CacheableMethods \cup EvictMethods

(* ttl option of @Cacheable and defaultTTL of CacheableModule.register, ms *)
TtlSpecs == {Undefined} \cup {Num(t) : t \in {0, 1, 999, 1000, 1001, 1500, 1999, 2000, 2001, 5000}}
DefaultTtls == {0, 1, 1500, 60000}

(* two calls of one decorated method: their keys are to be composed *)
ComposeInputs ==
  {[PureIdle EXCEPT !.op = "compose", !.key = k, !.namespace = n,
                    !.methodName = m, !.args = <<a>>, !.args2 = <<b>>] :
     k \in KeySpecs, n \in NamespaceSpecs, m \in MethodNames,
     a \in ArgValues, b \in ArgValues}

(* a write-back with per-call ttl t under default TTL g *)
TtlInputs ==
  {[PureIdle EXCEPT !.op = "ttl", !.ttl = t, !.gttl = g] :
     t \in TtlSpecs, g \in DefaultTtls}

CTask(c) == <<"c", c>>
ETask(j) == <<"e", j>>
EnvTask == <<"env", 0>>
(* (the waiters of a promise never resumed) *)
CTasksLost(ws) == <<>>

(* the continuations of the callers ws that await one promise, in the order
   in which they began to wait *)
CTasks(ws) == [i \in 1..Len(ws) |-> CTask(ws[i])]

Init ==
  /\ cacheManager = TRUE
  /\ store \in [Keys -> {Absent, PrePopulated, Malformed}]
  /\ \A k \in Keys \ CacheableKeys : store[k] = PrePopulated
  /\ pendingCacheMap = [k \in Keys |-> 0]
  /\ reads = <<>>
  /\ pendingMethodCallMap = [k \in Keys |-> 0]
  /\ entries = <<>>
  /\ call = [c \in RaceCallers |-> IdleCall]
  /\ evict = [j \in EvictCalls |-> IdleEvict]
  /\ mq = <<>>
  /\ phase = "task"
  /\ pure = PureIdle

(* ----------------------------- event loop ------------------------------ *)
(* code of the environment is running: a task, or a microtask of its own *)
EnvTurn == phase = "task" \/ (mq # <<>> /\ Head(mq) = EnvTask)

(* microtask t is the one to run *)
Runs(t) == phase = "jobs" /\ mq # <<>> /\ Head(mq) = t

(* the phase once the queue is q after a microtask has run *)
After(q) == IF q = <<>> THEN "task" ELSE "jobs"

(* Code of the environment awaits a settled promise: a microtask of its. *)
Schedule ==
  /\ Cardinality({i \in 1..Len(mq) : mq[i] = EnvTask}) < MaxEnvTasks
  /\ mq' = Append(mq, EnvTask)
  /\ UNCHANGED <<cacheManager, store, pendingCacheMap, reads,
                 pendingMethodCallMap, entries, call, evict, phase>>
  /\ UNCHANGED pure

(* The running task ends: the microtasks run. *)
EndTask ==
  /\ phase = "task" /\ mq # <<>>
  /\ phase' = "jobs"
  /\ UNCHANGED <<cacheManager, store, pendingCacheMap, reads,
                 pendingMethodCallMap, entries, call, evict, mq>>
  /\ UNCHANGED pure

(* A microtask of the environment ends. *)
EnvDone ==
  /\ Runs(EnvTask)
  /\ mq' = Tail(mq)
  /\ phase' = After(Tail(mq))
  /\ UNCHANGED <<cacheManager, store, pendingCacheMap, reads,
                 pendingMethodCallMap, entries, call, evict>>
  /\ UNCHANGED pure

(* ------------------------- module wiring ------------------------------- *)
(* CacheableModule's constructor: setCacheManager(this.cache) *)
setCacheManager ==
  /\ EnvTurn
  /\ ~cacheManager
  /\ cacheManager' = TRUE
  /\ UNCHANGED <<store, pendingCacheMap, reads, pendingMethodCallMap, entries,
                 call, evict, mq>>
  /\ UNCHANGED phase
  /\ UNCHANGED pure

(* ----------------------------- @Cacheable ------------------------------ *)
(* (Math.floor in place of Math.ceil) *)
FloorSec(ms) == ms \div 1000

(* Math.ceil(ms / 1000) *)
CeilSec(ms) == (ms + 999) \div 1000

(* (the default TTL looked at first) *)
ttlSecDefaultFirst(ttl, gttl) ==
  IF gttl > 0 THEN CeilSec(gttl)
  ELSE IF ttl.tag # "undefined" THEN CeilSec(ttl.v) ELSE 0

(* cacheableHandle, step 3: const ttlSec = ttl !== undefined ? ... : 0,
   gttl the value of globalTTL *)
ttlSecOf(ttl, gttl) ==
  IF ttl.tag # "undefined" THEN CeilSec(ttl.v)
  ELSE IF gttl > 0 THEN CeilSec(gttl) ELSE 0

(* ttlSec under the default TTL of the process *)
TtlSec(ttl) == ttlSecOf(ttl, globalTTL)

(* if (ttlSec > 0) set(key, data, 'EX', ttlSec) else set(key, data):
   the expiration the store is given, 0 = no expiration argument *)
Expiration(sec) == IF sec > 0 THEN sec ELSE 0

(* (the guard left out) *)
PassesThroughNever(cm) == FALSE

(* `if (!cm) return original.apply(this, args)` *)
PassesThrough(cm) == ~cm

(* The @CacheEvict calls that have returned their method's result with the
   delete of key k fulfilled (for the record: calls made after them). *)
Evicted(k) ==
  {j \in EvictCalls :
     /\ evict[j].pc = "done" /\ evict[j].orig.tag = "num"
     /\ \E n \in 1..Len(evict[j].dels) :
          /\ evict[j].dels[n].state = "fulfilled"
          /\ \E x \in 1..Len(evict[j].dels[n].keys) : evict[j].dels[n].keys[x] = k}

(* The wrapper up to its first await: getCacheManager, generateComposedKey,
   cacheableHandle and fetchCachedValue down to `await promise`. *)
Cacheable(c, m, id) ==
  /\ EnvTurn
  /\ call[c].pc = "idle"
  /\ c > 1 => call[c - 1].pc # "idle"
  /\ LET args == <<id>>
         composed == ComposeFor(CacheableOpts(m), m, args)
         key == composed.v[1]
         r == pendingCacheMap[key]
         nr == IF r = 0 THEN Len(reads) + 1 ELSE r
     IN IF PassesThrough(cacheManager)
        THEN /\ call' = [call EXCEPT ![c] =
                  [@ EXCEPT !.pc = "orig_wait", !.method = m, !.args = args,
                            !.direct = ~cacheManager, !.invoked = Arr(args)]]
             /\ UNCHANGED <<pendingCacheMap, reads, mq>>
        ELSE /\ call' = [call EXCEPT ![c] =
                  [@ EXCEPT !.pc = "read_wait", !.method = m, !.args = args,
                            !.direct = ~cacheManager, !.key = key, !.rp = nr,
                            !.after = Evicted(key)]]
             /\ IF r = 0
                THEN /\ reads' = Append(reads, [key |-> key, state |-> "pending",
                                                 raw |-> JSNull, waiters |-> <<c>>])
                     /\ pendingCacheMap' = [pendingCacheMap EXCEPT ![key] = nr]
                     /\ mq' = mq
                ELSE /\ pendingCacheMap' = pendingCacheMap
                     /\ IF reads[r].state = "pending"
                        THEN /\ reads' = [reads EXCEPT ![r].waiters = Append(@, c)]
                             /\ mq' = mq
                        ELSE /\ reads' = reads
                             /\ mq' = Append(mq, CTask(c))
  /\ UNCHANGED <<cacheManager, store, pendingMethodCallMap, entries, evict>>
  /\ UNCHANGED phase
  /\ UNCHANGED pure

(* The reply of client.get(key): the payload, null, or a rejection. *)
StoreGetSettle(r, ok) ==
  /\ phase = "task"
  /\ r \in 1..Len(reads)
  /\ reads[r].state = "pending"
  /\ reads' = [reads EXCEPT ![r] =
       [@ EXCEPT !.state = IF ok THEN "fulfilled" ELSE "rejected",
                 !.raw = IF ok THEN store[reads[r].key].data ELSE JSNull,
                 !.waiters = <<>>]]
  /\ mq' = mq \o CTasks(reads[r].waiters)
  /\ UNCHANGED <<cacheManager, store, pendingCacheMap, pendingMethodCallMap,
                 entries, call, evict>>
  /\ UNCHANGED phase
  /\ UNCHANGED pure

(* fetchCachedValue after `await promise`: the finally, then the return. *)
fetchCachedValue(c) ==
  /\ Runs(CTask(c))
  /\ call[c].pc = "read_wait"
  /\ LET rd == reads[call[c].rp]
         res == IF rd.state = "rejected" THEN Throw(StoreReadError)
                ELSE IF rd.raw.tag # "null" THEN deserialize(rd.raw)
                ELSE Undefined
     IN /\ pendingCacheMap' = [pendingCacheMap EXCEPT ![call[c].key] = 0]
        /\ call' = [call EXCEPT ![c] = [@ EXCEPT !.pc = "fetch_wait", !.fetched = res]]
        /\ mq' = Append(Tail(mq), CTask(c))
  /\ UNCHANGED <<cacheManager, store, reads, pendingMethodCallMap, entries, evict>>
  /\ phase' = After(mq')
  /\ UNCHANGED pure

(* (no catch around the lookup) *)
CatchReadNone(f) == f

(* try { const cached = await fetchCachedValue(key); ... } catch { }:
   a rejection of the read is dropped, the call goes on as after a miss *)
CatchRead(f) == IF f.tag = "throw" THEN Undefined ELSE f

(* (the early return left out) *)
IsHitNever(cached) == FALSE

(* cached !== undefined *)
IsHit(cached) == cached.tag # "undefined"

(* (the in-flight map never consulted) *)
GetEntryMiss(key) == 0

(* pendingMethodCallMap.get(key), 0 = undefined *)
GetEntry(key) == pendingMethodCallMap[key]

(* cacheableHandle after `await fetchCachedValue(key)`: the hit, or step 2
   down to `await entry.promise`. *)
cacheableHandle(c) ==
  /\ Runs(CTask(c))
  /\ call[c].pc = "fetch_wait"
  /\ LET cached == CatchRead(call[c].fetched)
         key == call[c].key
         e == GetEntry(key)
         ne == IF e = 0 THEN Len(entries) + 1 ELSE e
     IN IF cached.tag = "throw" \/ IsHit(cached)
        THEN /\ call' = [call EXCEPT ![c] = [@ EXCEPT !.pc = "done", !.result = cached]]
             /\ mq' = Tail(mq)
             /\ UNCHANGED <<pendingMethodCallMap, entries>>
        ELSE /\ call' = [call EXCEPT ![c] =
                  [@ EXCEPT !.pc = "method_wait", !.entry = ne, !.owner = (e = 0),
                            !.invoked = IF e = 0 THEN Arr(call[c].args) ELSE @]]
             /\ IF e = 0
                THEN /\ entries' = Append(entries,
                          [key |-> key, promise |-> "pending", timer |-> "armed",
                           delay |-> pendingTimeout, waiters |-> <<c>>])
                     /\ pendingMethodCallMap' = [pendingMethodCallMap EXCEPT ![key] = ne]
                     /\ mq' = Tail(mq)
                ELSE /\ pendingMethodCallMap' = pendingMethodCallMap
                     /\ IF entries[e].promise = "pending"
                        THEN /\ entries' = [entries EXCEPT ![e].waiters = Append(@, c)]
                             /\ mq' = Tail(mq)
                        ELSE /\ entries' = entries
                             /\ mq' = Append(Tail(mq), CTask(c))
  /\ UNCHANGED <<cacheManager, store, pendingCacheMap, reads, evict>>
  /\ phase' = After(mq')
  /\ UNCHANGED pure

(* The original method started by cacheableHandle settles. *)
MethodSettle(e, ok) ==
  /\ EnvTurn
  /\ e \in 1..Len(entries)
  /\ entries[e].promise = "pending"
  /\ entries' = [entries EXCEPT ![e] =
       [@ EXCEPT !.promise = IF ok THEN "fulfilled" ELSE "rejected",
                 !.waiters = <<>>]]
  /\ mq' = mq \o CTasks(entries[e].waiters)
  /\ UNCHANGED <<cacheManager, store, pendingCacheMap, reads,
                 pendingMethodCallMap, call, evict>>
  /\ UNCHANGED phase
  /\ UNCHANGED pure

(* (a callback that leaves the map alone) *)
TimerCallbackNoop(map, key) == map

(* () => pendingMethodCallMap.delete(key) *)
TimerCallback(map, key) == [map EXCEPT ![key] = 0]

(* The watchdog: setTimeout(() => pendingMethodCallMap.delete(key),
   pendingTimeout).  A timer callback runs when no microtask is queued, and
   timers of equal delay run in the order in which they were set. *)

Watchdog(e) ==
  /\ e \in 1..Len(entries)
  /\ entries[e].timer = "armed"
  /\ \A d \in 1..(e - 1) : entries[d].timer # "armed"
  /\ phase = "task" /\ mq = <<>>
  /\ entries' = [entries EXCEPT ![e].timer = "fired"]
  /\ pendingMethodCallMap' = TimerCallback(pendingMethodCallMap, entries[e].key)
  /\ UNCHANGED <<cacheManager, store, pendingCacheMap, reads, call, evict, mq>>
  /\ UNCHANGED phase
  /\ UNCHANGED pure

(* (a rejection taken for a value) *)
AwaitSwallow(e) == Num(e)

(* value = await entry.promise: the value of invocation e, or its error *)
Await(e) ==
  IF entries[e].promise = "rejected" THEN Throw(ProducerError(e)) ELSE Num(e)

(* (a finally that leaves the map alone) *)
FinallyDeleteNone(map, key) == map

(* finally { ...; pendingMethodCallMap.delete(key) } *)
FinallyDelete(map, key) == [map EXCEPT ![key] = 0]

(* cacheableHandle after `await entry.promise`: the finally, then either
   the rethrow or step 3 down to `await client.set`. *)
WriteBack(c) ==
  /\ Runs(CTask(c))
  /\ call[c].pc = "method_wait"
  /\ LET e == call[c].entry
         value == Await(e)
     IN /\ entries' = [entries EXCEPT ![e].timer =
                          IF @ = "armed" THEN "cleared" ELSE @]
        /\ pendingMethodCallMap' = FinallyDelete(pendingMethodCallMap, call[c].key)
        /\ IF value.tag = "throw"
           THEN call' = [call EXCEPT ![c] = [@ EXCEPT !.pc = "done", !.result = value]]
           ELSE call' = [call EXCEPT ![c] =
                  [@ EXCEPT !.pc = "set_wait", !.value = value, !.set = "pending"]]
  /\ mq' = Tail(mq)
  /\ UNCHANGED <<cacheManager, store, pendingCacheMap, reads, evict>>
  /\ phase' = After(mq')
  /\ UNCHANGED pure

(* (the write not awaited: its rejection is lost) *)
SetOutcomeIgnore(ok, value) == value

(* await client.set(...); return value *)
SetOutcome(ok, value) == IF ok THEN value ELSE Throw(StoreWriteError)

(* The reply of client.set(key, data[, 'EX', ttlSec]) and the rest of
   cacheableHandle: `return value`, or the rejection of the await.  Replies
   of the store are I/O events: they are delivered when no microtask is
   queued. *)

StoreSetSettle(c, ok) ==
  /\ phase = "task"
  /\ call[c].pc = "set_wait"
  /\ LET ttlSec == TtlSec(CacheableOpts(call[c].method).ttl)
         data == serialize(call[c].value)
     IN store' = IF ok
                 THEN [store EXCEPT ![call[c].key] =
                         [data |-> data, ex |-> Expiration(ttlSec)]]
                 ELSE store
  /\ call' = [call EXCEPT ![c] =
       [@ EXCEPT !.pc = "done",
                 !.set = IF ok THEN "fulfilled" ELSE "rejected",
                 !.result = SetOutcome(ok, call[c].value)]]
  /\ UNCHANGED <<cacheManager, pendingCacheMap, reads, pendingMethodCallMap,
                 entries, evict, mq>>
  /\ UNCHANGED phase
  /\ UNCHANGED pure

(* The pass-through: the promise of original.apply(this, args) settles and
   is the outcome of the wrapper. *)
PassThrough(c, ok) ==
  /\ EnvTurn
  /\ call[c].pc = "orig_wait"
  /\ call' = [call EXCEPT ![c] =
       [@ EXCEPT !.pc = "done",
                 !.orig = IF ok THEN Num(0) ELSE Throw(OriginalError),
                 !.result = IF ok THEN Num(0) ELSE Throw(OriginalError)]]
  /\ UNCHANGED <<cacheManager, store, pendingCacheMap, reads,
                 pendingMethodCallMap, entries, evict, mq>>
  /\ UNCHANGED phase
  /\ UNCHANGED pure

(* ---------------------------- @CacheEvict ------------------------------ *)
(* The wrapper up to `await original.apply(this, args)`. *)
CacheEvict(j, m, id) ==
  /\ EnvTurn
  /\ evict[j].pc = "idle"
  /\ j > 1 => evict[j - 1].pc # "idle"
  /\ evict' = [evict EXCEPT ![j] =
       [@ EXCEPT !.pc = "orig_wait", !.method = m, !.args = <<id>>,
                 !.before = Len(entries)]]
  /\ UNCHANGED <<cacheManager, store, pendingCacheMap, reads,
                 pendingMethodCallMap, entries, call, mq>>
  /\ UNCHANGED phase
  /\ UNCHANGED pure

(* The original method of a @CacheEvict call settles. *)
EvictOriginalSettle(j, ok) ==
  /\ EnvTurn
  /\ evict[j].pc = "orig_wait"
  /\ evict[j].orig.tag = "undefined"
  /\ evict' = [evict EXCEPT ![j].orig =
       IF ok THEN Num(7) ELSE Throw(OriginalError)]
  /\ mq' = Append(mq, ETask(j))
  /\ UNCHANGED <<cacheManager, store, pendingCacheMap, reads,
                 pendingMethodCallMap, entries, call>>
  /\ UNCHANGED phase
  /\ UNCHANGED pure

(* opts.map(...): the number of specs whose mdel is issued before the
   callback throws (generateComposedKey throws, or getCacheManager() is
   undefined); all of them if none throws. *)
RECURSIVE Issued(_, _, _, _)
Issued(m, args, n, cm) ==
  IF n > Len(EvictOpts(m)) THEN n - 1
  ELSE IF ComposeFor(EvictOpts(m)[n], m, args).tag = "throw" \/ ~cm THEN n - 1
  ELSE Issued(m, args, n + 1, cm)

(* (no catch around the eviction) *)
CatchEvictionNone(x, orig) == x

(* try { await Promise.all(...) } catch { }: what the finally block lets
   out after x was thrown inside the try; the original's result or error
   stands. *)
CatchEviction(x, orig) == orig

(* The finally block after `await original`: it runs whether the original
   fulfilled or rejected.  Down to `await Promise.all(...)`, or through the
   catch to the return / rethrow when the map callback throws. *)
Finally(j) ==
  /\ Runs(ETask(j))
  /\ evict[j].pc = "orig_wait"
  /\ LET m == evict[j].method
         args == evict[j].args
         n == Issued(m, args, 1, cacheManager)
         dels == [i \in 1..n |->
                    [keys |-> EvictKeysOf(m, i, args), state |-> "pending"]]
     IN IF n = Len(EvictOpts(m))
        THEN evict' = [evict EXCEPT ![j] = [@ EXCEPT !.pc = "all_wait", !.dels = dels]]
        ELSE evict' = [evict EXCEPT ![j] =
               [@ EXCEPT !.pc = "done", !.dels = dels,
                         !.result = CatchEviction(Throw(TypeError), evict[j].orig)]]
  /\ mq' = Tail(mq)
  /\ UNCHANGED <<cacheManager, store, pendingCacheMap, reads,
                 pendingMethodCallMap, entries, call>>
  /\ phase' = After(mq')
  /\ UNCHANGED pure

(* The reply of store.mdel(...keys).  Promise.all settles when the last
   promise fulfils or the first one rejects. *)
StoreDelSettle(j, i, ok) ==
  /\ phase = "task"
  /\ i \in 1..Len(evict[j].dels)
  /\ evict[j].dels[i].state = "pending"
  /\ LET ks == evict[j].dels[i].keys
         gone == {ks[x] : x \in 1..Len(ks)}
         dels == [evict[j].dels EXCEPT ![i].state =
                    IF ok THEN "fulfilled" ELSE "rejected"]
         settles == /\ evict[j].pc = "all_wait"
                    /\ \/ ~ok
                       \/ \A x \in 1..Len(dels) : dels[x].state = "fulfilled"
     IN /\ store' = IF ok THEN [k \in Keys |-> IF k \in gone THEN Absent ELSE store[k]]
                    ELSE store
        /\ evict' = [evict EXCEPT ![j] =
             [@ EXCEPT !.dels = dels,
                       !.pc = IF settles THEN "all_settled" ELSE @]]
        /\ mq' = IF settles THEN Append(mq, ETask(j)) ELSE mq
  /\ UNCHANGED <<cacheManager, pendingCacheMap, reads, pendingMethodCallMap,
                 entries, call>>
  /\ UNCHANGED phase
  /\ UNCHANGED pure

(* After `await Promise.all(...)`: catch { } swallows a rejection; then
   `return result`, or the rethrow of the original's error. *)
EvictReturn(j) ==
  /\ Runs(ETask(j))
  /\ evict[j].pc = "all_settled"
  /\ LET rejected == \E x \in 1..Len(evict[j].dels) :
                        evict[j].dels[x].state = "rejected"
     IN evict' = [evict EXCEPT ![j] =
          [@ EXCEPT !.pc = "done",
                    !.result = IF rejected
                               THEN CatchEviction(Throw(StoreDelError), evict[j].orig)
                               ELSE evict[j].orig]]
  /\ mq' = Tail(mq)
  /\ UNCHANGED <<cacheManager, store, pendingCacheMap, reads,
                 pendingMethodCallMap, entries, call>>
  /\ phase' = After(mq')
  /\ UNCHANGED pure

(* --------------------------- specifications ---------------------------- *)
EventLoop == Schedule \/ EndTask \/ EnvDone

NextCacheable ==
  \/ EventLoop
  \/ \E c \in Callers, m \in CacheableMethods, id \in Ids : Cacheable(c, m, id)
  \/ \E r \in 1..Len(reads), ok \in BOOLEAN : StoreGetSettle(r, ok)
  \/ \E c \in Callers : fetchCachedValue(c)
  \/ \E c \in Callers : cacheableHandle(c)
  \/ \E e \in 1..Len(entries), ok \in BOOLEAN : MethodSettle(e, ok)
  \/ \E e \in 1..Len(entries) : Watchdog(e)
  \/ \E c \in Callers : WriteBack(c)
  \/ \E c \in Callers, ok \in BOOLEAN : StoreSetSettle(c, ok)

NextEvict ==
  \/ EventLoop
  \/ \E j \in EvictCalls, m \in EvictMethods, id \in Ids : CacheEvict(j, m, id)
  \/ \E j \in EvictCalls, ok \in BOOLEAN : EvictOriginalSettle(j, ok)
  \/ \E j \in EvictCalls : Finally(j)
  \/ \E j \in EvictCalls, i \in 1..2, ok \in BOOLEAN : StoreDelSettle(j, i, ok)
  \/ \E j \in EvictCalls : EvictReturn(j)

(* The application after the module has been constructed. *)
Next == NextCacheable

Spec == Init /\ [][Next]_vars

(* Before the module is constructed getCacheManager() is undefined. *)
InitBoot ==
  /\ cacheManager = FALSE
  /\ store \in [Keys -> {Absent, PrePopulated, Malformed}]
  /\ \A k \in Keys \ CacheableKeys : store[k] = PrePopulated
  /\ pendingCacheMap = [k \in Keys |-> 0]
  /\ reads = <<>>
  /\ pendingMethodCallMap = [k \in Keys |-> 0]
  /\ entries = <<>>
  /\ call = [c \in RaceCallers |-> IdleCall]
  /\ evict = [j \in EvictCalls |-> IdleEvict]
  /\ mq = <<>>
  /\ phase = "task"
  /\ pure = PureIdle

NextBoot == setCacheManager \/ NextCacheable
              \/ \E c \in Callers, ok \in BOOLEAN : PassThrough(c, ok)

SpecBoot == InitBoot /\ [][NextBoot]_vars

NextEvictBoot == setCacheManager \/ NextEvict

SpecEvict == InitBoot /\ [][NextEvictBoot]_vars

(* @CacheEvict calls once the module has been constructed. *)
SpecEvictReady == Init /\ [][NextEvict]_vars

(* @Cacheable and @CacheEvict calls on the same key, side by side: a store
   that answers, methods that succeed. *)
NextMixed ==
  \/ EventLoop
  \/ \E c \in 1..(NumCallers - 1), m \in CacheableMethods, id \in Ids : Cacheable(c, m, id)
  \/ \E r \in 1..Len(reads) : StoreGetSettle(r, TRUE)
  \/ \E c \in Callers : fetchCachedValue(c)
  \/ \E c \in Callers : cacheableHandle(c)
  \/ \E e \in 1..Len(entries) : MethodSettle(e, TRUE)
  \/ \E c \in Callers : WriteBack(c)
  \/ \E c \in Callers : StoreSetSettle(c, TRUE)
  \/ \E id \in Ids : CacheEvict(1, "deleteUser", id)
  \/ EvictOriginalSettle(1, TRUE)
  \/ Finally(1)
  \/ \E i \in 1..2 : StoreDelSettle(1, i, TRUE)
  \/ EvictReturn(1)

SpecMixed == Init /\ [][NextMixed]_vars

(* A store that answers and producers that settle, no watchdog in time:
   the environment of the late-waiter race, with one call more. *)
NextRace ==
  \/ EventLoop
  \/ \E c \in RaceCallers, m \in CacheableMethods, id \in Ids : Cacheable(c, m, id)
  \/ \E r \in 1..Len(reads) : StoreGetSettle(r, TRUE)
  \/ \E c \in RaceCallers : fetchCachedValue(c)
  \/ \E c \in RaceCallers : cacheableHandle(c)
  \/ \E e \in 1..Len(entries) : MethodSettle(e, TRUE)
  \/ \E c \in RaceCallers : WriteBack(c)
  \/ \E c \in RaceCallers : StoreSetSettle(c, TRUE)

SpecRace == Init /\ [][NextRace]_vars

(* N calls for a key that the store does not hold, all of them made before
   the store has answered the first read. *)
InitBurst ==
  /\ cacheManager = TRUE
  /\ store = [k \in Keys |-> Absent]
  /\ pendingCacheMap = [k \in Keys |-> 0]
  /\ reads = <<>>
  /\ pendingMethodCallMap = [k \in Keys |-> 0]
  /\ entries = <<>>
  /\ call = [c \in RaceCallers |-> IdleCall]
  /\ evict = [j \in EvictCalls |-> IdleEvict]
  /\ mq = <<>>
  /\ phase = "task"
  /\ pure = PureIdle

BurstCall(c, m, id) ==
  /\ \A r \in 1..Len(reads) : reads[r].state = "pending"
  /\ Cacheable(c, m, id)

NextBurst ==
  \/ EventLoop
  \/ \E c \in Callers, m \in CacheableMethods, id \in Ids : BurstCall(c, m, id)
  \/ \E r \in 1..Len(reads), ok \in BOOLEAN : StoreGetSettle(r, ok)
  \/ \E c \in Callers : fetchCachedValue(c)
  \/ \E c \in Callers : cacheableHandle(c)
  \/ \E e \in 1..Len(entries), ok \in BOOLEAN : MethodSettle(e, ok)
  \/ \E e \in 1..Len(entries) : Watchdog(e)
  \/ \E c \in Callers : WriteBack(c)
  \/ \E c \in Callers, ok \in BOOLEAN : StoreSetSettle(c, ok)

SpecBurst == InitBurst /\ [][NextBurst]_vars

(* Calls under an event loop that keeps running and a store and producers
   that answer: a queued continuation runs (the microtask queue is drained
   before the next task, and code outside the library does not fill it for
   ever), and every read, producer invocation and write settles, with
   success or not.  The watchdog may fire or not. *)
LiveCallers == 1..(NumCallers - 1)

Microtask ==
  \/ EndTask
  \/ EnvDone
  \/ \E c \in LiveCallers : fetchCachedValue(c) \/ cacheableHandle(c) \/ WriteBack(c)

NextLive ==
  \/ Schedule
  \/ Microtask
  \/ \E c \in LiveCallers, m \in CacheableMethods, id \in Ids : Cacheable(c, m, id)
  \/ \E r \in 1..Len(reads), ok \in BOOLEAN : StoreGetSettle(r, ok)
  \/ \E e \in 1..Len(entries), ok \in BOOLEAN : MethodSettle(e, ok)
  \/ \E e \in 1..Len(entries) : Watchdog(e)
  \/ \E c \in LiveCallers, ok \in BOOLEAN : StoreSetSettle(c, ok)

Fairness ==
  /\ WF_vars(Microtask)
  /\ SF_vars(EnvDone /\ phase' = "task")
  /\ SF_vars(\E r \in 1..Len(reads), ok \in BOOLEAN : StoreGetSettle(r, ok))
  /\ SF_vars(\E e \in 1..Len(entries), ok \in BOOLEAN : MethodSettle(e, ok))
  /\ SF_vars(\E c \in LiveCallers, ok \in BOOLEAN : StoreSetSettle(c, ok))

SpecLive == Init /\ [][NextLive]_vars /\ Fairness

(* The helpers alone: generateComposedKey for two calls of a decorated
   method, and step 3 of cacheableHandle for a ttl and a default TTL. *)
InitPure ==
  /\ cacheManager = TRUE
  /\ store = [k \in Keys |-> Absent]
  /\ pendingCacheMap = [k \in Keys |-> 0]
  /\ reads = <<>>
  /\ pendingMethodCallMap = [k \in Keys |-> 0]
  /\ entries = <<>>
  /\ call = [c \in RaceCallers |-> IdleCall]
  /\ evict = [j \in EvictCalls |-> IdleEvict]
  /\ mq = <<>>
  /\ phase = "task"
  /\ pure \in ComposeInputs \cup TtlInputs

ComposeKeys ==
  /\ pure.op = "compose" /\ ~pure.done
  /\ pure' = [pure EXCEPT !.out = ComposeFor(pure, pure.methodName, pure.args),
                          !.out2 = ComposeFor(pure, pure.methodName, pure.args2),
                          !.done = TRUE]
  /\ UNCHANGED <<cacheManager, store, pendingCacheMap, reads,
                 pendingMethodCallMap, entries, call, evict, mq, phase>>

ComputeTtl ==
  /\ pure.op = "ttl" /\ ~pure.done
  /\ pure' = [pure EXCEPT !.out = Num(ttlSecOf(pure.ttl, pure.gttl)),
                          !.out2 = Num(Expiration(ttlSecOf(pure.ttl, pure.gttl))),
                          !.done = TRUE]
  /\ UNCHANGED <<cacheManager, store, pendingCacheMap, reads,
                 pendingMethodCallMap, entries, call, evict, mq, phase>>

NextPure == ComposeKeys \/ ComputeTtl

SpecPure == InitPure /\ [][NextPure]_vars

(* ------------------------------ claims --------------------------------- *)
Called(k) == {c \in RaceCallers : call[c].pc # "idle" /\ call[c].key = k}
Invocations(k) == {e \in 1..Len(entries) : entries[e].key = k}
LiveProducers(k) == {e \in Invocations(k) : entries[e].promise = "pending"}
NoWatchdogFired == \A e \in 1..Len(entries) : entries[e].timer # "fired"
IsValue(x) == x.tag \in {"num", "null"}

(* C1: N >= 2 concurrent calls for the same key, the store holding no entry
   for it: the producer is invoked exactly once, and every call resolves to
   the value of that one invocation (a call fails only if the producer or
   its own write-back failed). *)
C1_Coalescing ==
  \A k \in CacheableKeys :
    /\ Cardinality(Invocations(k)) <= 1
    /\ (Cardinality(Called(k)) >= 2 /\ \A c \in Called(k) : call[c].pc = "done")
         => /\ Cardinality(Invocations(k)) = 1
            /\ \A c \in Called(k) :
                 /\ call[c].entry \in Invocations(k)
                 /\ IsValue(call[c].result) => call[c].result = Num(call[c].entry)
                 /\ ~IsValue(call[c].result)
                      => \/ entries[call[c].entry].promise = "rejected"
                         \/ call[c].set = "rejected"

C1_Witness ==
  \E k \in CacheableKeys :
    /\ Cardinality(Called(k)) >= 2
    /\ Cardinality(Invocations(k)) = 1
    /\ \A c \in Called(k) : call[c].pc = "done" /\ call[c].result = Num(1)

(* C2: in every reachable state in which no watchdog timer has fired, at
   most one producer invocation per key is unsettled. *)
C2_AtMostOneLiveProducer ==
  NoWatchdogFired => \A k \in Keys : Cardinality(LiveProducers(k)) <= 1


C2_Witness ==
  /\ NoWatchdogFired
  /\ \E k \in Keys : Cardinality(Called(k)) >= 2 /\ Cardinality(LiveProducers(k)) = 1

(* C3: a store hit that deserializes to a defined value is returned; the
   call invokes no producer, creates and awaits no in-flight record and
   issues no store write. *)
C3_HitSkipsProducer ==
  \A c \in Callers :
    IsValue(call[c].fetched)
      => /\ call[c].pc \in {"fetch_wait", "done"}
         /\ call[c].entry = 0 /\ ~call[c].owner
         /\ call[c].invoked = Undefined
         /\ call[c].set = "none"
         /\ call[c].pc = "done" => call[c].result = call[c].fetched

C3_Witness ==
  \E c \in Callers :
    /\ call[c].pc = "done"
    /\ call[c].fetched = Num(9) /\ call[c].result = Num(9)
    /\ entries = <<>>

(* C4: when the producer of an in-flight record fails, every caller that
   awaits the record fails with that producer's error and issues no store
   write. *)
C4_ProducerFailure ==
  \A c \in Callers :
    (call[c].entry # 0 /\ entries[call[c].entry].promise = "rejected")
      => /\ call[c].pc \in {"method_wait", "done"}
         /\ call[c].set = "none"
         /\ call[c].pc = "done"
              => call[c].result = Throw(ProducerError(call[c].entry))

C4_Witness ==
  \E c, d \in Callers :
    /\ c # d /\ call[c].entry = call[d].entry /\ call[c].entry # 0
    /\ call[c].pc = "done" /\ call[d].pc = "done"
    /\ call[c].result = Throw(ProducerError(call[c].entry))
    /\ call[d].result = call[c].result

(* C5 as stated: after a failed store read the outcome of the call is the
   outcome of the producer it awaited. *)
C5_OutcomeIsProducers ==
  \A c \in Callers :
    (call[c].fetched.tag = "throw" /\ call[c].pc = "done")
      => call[c].entry # 0 /\ call[c].result = Await(call[c].entry)

(* C5 amended: a failed store read (a rejected read or a deserialization
   error) is never the outcome of the call; the call goes on to the
   in-flight check and the producer, and its outcome is the producer's
   unless its own write-back fails, which fails the call with the store's
   write error. *)
C5_ReadFailureIsMiss ==
  \A c \in Callers :
    call[c].fetched.tag = "throw"
      => /\ call[c].pc = "fetch_wait" \/ call[c].entry # 0
         /\ call[c].pc = "done"
              => /\ call[c].result # call[c].fetched
                 /\ \/ call[c].result = Await(call[c].entry)
                    \/ /\ call[c].set = "rejected"
                       /\ call[c].result = Throw(StoreWriteError)

C5_Witness ==
  \E c, d \in Callers :
    /\ call[c].fetched = Throw(StoreReadError)
    /\ call[c].pc = "done" /\ call[c].result = Num(call[c].entry)
    /\ call[d].fetched = Throw(SyntaxError)
    /\ call[d].pc = "done" /\ IsValue(call[d].result)

(* C6: a store write that fails after the producer succeeded fails the
   call with the store's error; the computed value is not returned. *)
C6_WriteFailurePropagates ==
  \A c \in Callers :
    call[c].set = "rejected"
      => /\ call[c].pc = "done"
         /\ entries[call[c].entry].promise = "fulfilled"
         /\ call[c].result = Throw(StoreWriteError)

C6_Witness ==
  \E c \in Callers :
    /\ call[c].set = "rejected" /\ call[c].pc = "done"
    /\ call[c].value = Num(call[c].entry)

(* C7: the watchdog of a record runs pendingTimeout = 30000 ms after the
   record was created and stays set while the producer is unsettled; once
   it has run the record is not in the in-flight map, and a call that
   reaches the in-flight check afterwards does not attach to that record
   but starts a new invocation (or joins a newer record). *)
C7_WatchdogRecovery ==
  /\ [](\A e \in 1..Len(entries) :
          /\ entries[e].delay = 30000
          /\ entries[e].promise = "pending" => entries[e].timer \in {"armed", "fired"}
          /\ entries[e].timer = "fired" => pendingMethodCallMap[entries[e].key] # e)
  /\ [][\A c \in Callers :
          (call[c].pc = "fetch_wait" /\ call'[c].pc = "method_wait")
            => /\ \A e \in 1..Len(entries) :
                    entries[e].timer = "fired" => call'[c].entry # e
               /\ pendingMethodCallMap[call[c].key] = 0
                    => /\ call'[c].owner
                       /\ call'[c].entry = Len(entries) + 1
                       /\ entries'[call'[c].entry].promise = "pending"]_vars

C7_Witness ==
  \E e \in 1..Len(entries), c \in Callers :
    /\ entries[e].promise = "pending" /\ entries[e].timer = "fired"
    /\ call[c].owner /\ call[c].entry > e
    /\ entries[call[c].entry].key = entries[e].key

(* C8: a @CacheEvict call issues a store delete only after its original
   method has completed successfully; none if the method throws. *)
C8_DeleteOnlyAfterSuccess ==
  \A j \in EvictCalls : evict[j].dels # <<>> => IsValue(evict[j].orig)

(* C9: a @CacheEvict call returns the original method's result when the
   method succeeds and fails with the original method's error when it
   throws, whatever happens to key composition and to the deletes. *)
C9_EvictionNeverMasks ==
  \A j \in EvictCalls :
    evict[j].pc = "done"
      => /\ evict[j].orig.tag \in {"num", "throw"}
         /\ evict[j].result = evict[j].orig

C9_Witness ==
  \E i, j \in EvictCalls :
    /\ evict[i].pc = "done" /\ evict[i].result = Num(7)
    /\ \E x \in 1..Len(evict[i].dels) : evict[i].dels[x].state = "rejected"
    /\ evict[j].pc = "done" /\ evict[j].result = Throw(OriginalError)
    /\ Len(evict[j].dels) < Len(EvictOpts(evict[j].method))

(* C10: with no store handle configured a @Cacheable call invokes the
   original method with the call's arguments and has its outcome; it
   composes no key, reads and writes no store entry and uses no in-flight
   map. *)
C10_PassThrough ==
  \A c \in Callers :
    call[c].direct
      => /\ call[c].pc \in {"orig_wait", "done"}
         /\ call[c].invoked = Arr(call[c].args)
         /\ call[c].key = Undefined /\ call[c].rp = 0
         /\ call[c].entry = 0 /\ call[c].set = "none"
         /\ call[c].pc = "done"
              => /\ call[c].orig.tag \in {"num", "throw"}
                 /\ call[c].result = call[c].orig

C10_Witness ==
  \E c, d \in Callers :
    /\ call[c].direct /\ call[c].pc = "done" /\ call[c].result = Num(0)
    /\ call[d].direct /\ call[d].pc = "done" /\ call[d].result = Throw(OriginalError)


(* What a key or namespace spec resolves to: the function applied to the
   arguments, or the literal; one string or an ordered sequence of them. *)
Resolved(b, a) ==
  LET v == IF b.tag = "fn" THEN ApplyFn(b.v, a) ELSE b
  IN IF v.tag = "arr" THEN v.v ELSE <<v>>

(* C11: with an explicit key spec the key set is what the function returns
   for the call's arguments, or the literal; two calls whose key function
   returns different strings use different keys. *)
C11_ExplicitKey ==
  (pure.op = "compose" /\ pure.done /\ pure.key.tag # "undefined")
    => /\ pure.namespace.tag = "undefined"
            => pure.out = Arr(Resolved(pure.key, pure.args))
       /\ Resolved(pure.key, pure.args)[1] # Resolved(pure.key, pure.args2)[1]
            => /\ pure.out.tag = "arr" /\ pure.out2.tag = "arr"
               /\ pure.out.v[1] # pure.out2.v[1]

(* C12: with a namespace spec every composed key is "<namespace>:<key>",
   <namespace> the first element of the resolved namespace; without one the
   keys are unprefixed. *)
C12_NamespacePrefix ==
  (pure.op = "compose" /\ pure.done)
    => LET bare == ComposeFor([pure EXCEPT !.namespace = Undefined],
                              pure.methodName, pure.args)
       IN bare.tag = "arr"
            => IF pure.namespace.tag = "undefined"
               THEN pure.out = bare
               ELSE pure.out =
                      Arr([i \in 1..Len(bare.v) |->
                             Str(ToStringJS(Resolved(pure.namespace, pure.args)[1])
                                 \o <<":">> \o ToStringJS(bare.v[i]))])


(* C13: a TTL of t > 0 ms, per call or default, is persisted as s whole
   seconds with s*1000 >= t and (s-1)*1000 < t; 1500 ms as exactly 2 s. *)
C13_TtlCeiling ==
  (pure.op = "ttl" /\ pure.done)
    => LET t == IF pure.ttl.tag # "undefined" THEN pure.ttl.v ELSE pure.gttl
           s == pure.out2.v
       IN t > 0 => /\ s * 1000 >= t
                   /\ (s - 1) * 1000 < t
                   /\ t = 1500 => s = 2

C13_Witness ==
  /\ pure.op = "ttl" /\ pure.done
  /\ pure.ttl = Num(1500) /\ pure.out2 = Num(2)

(* C14: the write-back uses the per-call TTL whenever one is given, else
   the default TTL of the process, else none; an effective TTL of 0 gives
   the store no expiration argument. *)
C14_EffectiveTtl ==
  (pure.op = "ttl" /\ pure.done)
    => LET given == pure.ttl.tag # "undefined"
           eff == IF given THEN pure.ttl.v ELSE pure.gttl
           s == pure.out2.v
       IN /\ pure.out2.tag = "num"
          /\ IF eff = 0 THEN s = 0
             ELSE s > 0 /\ s * 1000 >= eff /\ (s - 1) * 1000 < eff

C14_Witness ==
  /\ pure.op = "ttl" /\ pure.done
  /\ pure.ttl = Num(2001) /\ pure.gttl = 60000 /\ pure.out2 = Num(3)


(* C15: a record put into the in-flight map stays there while its own
   producer is unsettled and its own watchdog has not run; nothing else
   removes it. *)
C15_RecordLifecycle ==
  \A e \in 1..Len(entries) :
    (entries[e].promise = "pending" /\ entries[e].timer = "armed")
      => pendingMethodCallMap[entries[e].key] = e


InProgress(c) == call[c].pc \notin {"idle", "done"}

(* C16: once a caller has got the outcome of the producer it awaited, to
   go on to the write-back, to return or to fail, the in-flight map does
   not hold that producer's record; and when no call is in progress the
   in-flight map and the pending-read map are empty. *)
C16_RemovalOnSettlement ==
  /\ \A c \in Callers :
       (call[c].entry # 0 /\ call[c].pc \in {"set_wait", "done"})
         => pendingMethodCallMap[call[c].key] # call[c].entry
  /\ (\A c \in Callers : ~InProgress(c))
       => \A k \in Keys : pendingMethodCallMap[k] = 0 /\ pendingCacheMap[k] = 0

C16_Witness ==
  /\ \A c \in Callers : call[c].pc = "done"
  /\ \E c, d \in Callers :
       /\ call[c].entry # 0 /\ call[d].entry # 0 /\ call[c].entry # call[d].entry
       /\ IsValue(call[c].result) /\ call[d].result.tag = "throw"
  /\ \A k \in Keys : pendingMethodCallMap[k] = 0 /\ pendingCacheMap[k] = 0


PendingReads(k) == {r \in 1..Len(reads) : reads[r].key = k /\ reads[r].state = "pending"}

(* C17: at most one read of a key is on its way to the store at a time: a
   caller that arrives while a read for its key is pending shares it. *)
C17_ReadCoalescing ==
  \A k \in Keys : Cardinality(PendingReads(k)) <= 1


(* the callers that issued client.set for the value of invocation e *)
Writers(e) == {c \in RaceCallers : call[c].entry = e /\ call[c].set # "none"}

(* C18: one successful producer invocation leads to exactly one store
   write of its value, however many callers were coalesced onto it, and
   every one of those callers receives that value (unless the write it
   issued itself failed). *)
C18_OneWritePerInvocation ==
  \A e \in 1..Len(entries) :
    /\ Cardinality(Writers(e)) <= 1
    /\ \A c \in Callers :
         (call[c].entry = e /\ call[c].pc = "done" /\ entries[e].promise = "fulfilled")
           => /\ Cardinality(Writers(e)) = 1
              /\ call[c].set # "rejected" => call[c].result = Num(e)


(* C19: when a @CacheEvict call whose original method succeeded returns, a
   batch delete has been issued for the keys of every configured spec and
   all those deletes have settled. *)
C19_EvictCoversEverySpec ==
  \A j \in EvictCalls :
    (evict[j].pc = "done" /\ IsValue(evict[j].orig))
      => /\ Len(evict[j].dels) = Len(EvictOpts(evict[j].method))
         /\ \A n \in 1..Len(evict[j].dels) :
              /\ evict[j].dels[n].keys # <<>>
              /\ evict[j].dels[n].state # "pending"


(* C20: once a @CacheEvict call has returned with its delete of key k
   fulfilled, the store does not hold under k, and no Cacheable call for k
   made afterwards returns, a value of a producer invocation that started
   before the evicting method ran. *)
C20_EvictionNotUndone ==
  \A k \in CacheableKeys : \A j \in Evicted(k) :
    \A e \in 1..evict[j].before :
      entries[e].key = k
        => /\ store[k].data # serialize(Num(e))
           /\ \A c \in Callers :
                (call[c].pc = "done" /\ call[c].key = k /\ j \in call[c].after)
                  => call[c].result # Num(e)


(* C21: if every store read, store write and producer invocation settles,
   every call of cacheableHandle that was made returns a value or fails,
   whatever the interleaving of the callers of a key and whether or not a
   watchdog timer fires. *)
C21_Termination ==
  \A c \in LiveCallers : (call[c].pc # "idle") ~> (call[c].pc = "done")

C21_Witness ==
  /\ \A c \in LiveCallers : call[c].pc = "done" /\ call[c].entry # 0
  /\ \E e \in 1..Len(entries) : entries[e].timer = "fired"
  /\ \E c \in LiveCallers : IsValue(call[c].result)

====
